---- MODULE Spec2Model ----
(***************************************************************************)
(* Byte-oriented rANS codec of src/minimal.py: generate_frequency_table,   *)
(* StaticModel, compress and decompress, as one sequential state machine.  *)
(*                                                                         *)
(* Integers are Python integers (unbounded).  Every value the model        *)
(* computes stays below 2^31, so TLC's 32-bit integers represent them      *)
(* exactly; the one product that can reach 2^31, the encoder threshold H,  *)
(* is compared through an exact quotient (see AtLeastH).                   *)
(* Bit operations on non-negative integers are written arithmetically:     *)
(*   x >> k = x \div 2^k,  x << k = x * 2^k,  x & (2^k - 1) = x % 2^k,     *)
(*   (x << 8) | b = x * 256 + b  for b in 0..255.                          *)
(***************************************************************************)
EXTENDS Integers, Sequences, FiniteSets, TLC

\* ------------------------------------------------------------ constants
MODEL_BITS == 12
STATE_BITS == 31
NumSymbols == 256

enc_total == 2 ^ MODEL_BITS
MASK == (2 ^ MODEL_BITS) - 1
L == 2 ^ (STATE_BITS - 8)
Byte == 0 .. (NumSymbols - 1)

\* ------------------------------------------------------------ bounds
\* Longest symbol sequence handed to compress.
MaxLen == 3
\* The byte values the inputs range over (the tables still have 256 entries).
Alphabet == {0, 1, 255}
\* The occurrence counts a corpus may have for a byte value of Alphabet, in the
\* codec runs and in the runs that only build the model.
CountSet == {0, 1, 2, 8190}
NormCountSet == {0, 1, 2, 3, 4095, 8190, 100000}

VARIABLES
    pc,            \* position of the program
    corpus,        \* occurrence count of every byte value in the corpus
    freqs,         \* generate_frequency_table: freqs
    total,         \* generate_frequency_table: total
    passes,        \* number of completed passes of the while loop
    cdf,           \* StaticModel._cdf
    raw,           \* compress: the symbols to encode
    idx,           \* compress: 1-based index of the symbol of the for loop
    f,             \* compress: f of the current symbol
    X,             \* the state register of the pass that is running
    outbuf,        \* compress / decompress: outbuf
    compressed,    \* what compress returned (<<>> before and on failure)
    comp,          \* decompress: the reversed stream
    pos,           \* decompress: bytes of comp already read
    length,        \* decompress: declared length
    s,             \* decompress: symbol of the current iteration
    decompressed   \* what decompress returned

vars == <<pc, corpus, freqs, total, passes, cdf, raw, idx, f, X, outbuf,
          compressed, comp, pos, length, s, decompressed>>

normVars == <<freqs, total, passes>>
encVars == <<raw, idx, f, compressed>>
decVars == <<comp, pos, length, s, decompressed>>

\* ------------------------------------------------------------ helpers
RECURSIVE SumRange(_, _, _)
\* sum(fn[lo .. hi]), by halving so that the evaluation stays shallow
SumRange(fn, lo, hi) ==
    IF lo > hi THEN 0
    ELSE IF lo = hi THEN fn[lo]
    ELSE LET mid == (lo + hi) \div 2
         IN  SumRange(fn, lo, mid) + SumRange(fn, mid + 1, hi)

\* sum(fn[0 .. n-1])
SumUpTo(fn, n) == SumRange(fn, 0, n - 1)

Sum(fn) == SumUpTo(fn, NumSymbols)

RECURSIVE CountOf(_, _)
CountOf(seq, b) ==
    IF seq = <<>> THEN 0
    ELSE (IF seq[1] = b THEN 1 ELSE 0) + CountOf(Tail(seq), b)

\* freqs after the counting loop over a byte sequence
Histogram(seq) == [b \in Byte |-> CountOf(seq, b)]

RECURSIVE Reversed(_)
Reversed(seq) ==
    IF seq = <<>> THEN <<>> ELSE Append(Reversed(Tail(seq)), seq[1])

RECURSIVE SeqsUpTo(_, _)
SeqsUpTo(S, n) ==
    IF n = 0 THEN {<<>>}
    ELSE LET shorter == SeqsUpTo(S, n - 1)
         IN  shorter \cup {Append(q, b) : q \in {t \in shorter : Len(t) = n - 1}, b \in S}

\* ------------------------------------------------------------ initial state
ZeroTable == [b \in Byte |-> 0]

\* The state on entry to the while loop of generate_frequency_table, for a
\* corpus whose byte counts are drawn from `counts`.
InitWith(counts) ==
    /\ \E c \in [Alphabet -> counts] :
          corpus = [b \in Byte |-> IF b \in Alphabet THEN c[b] ELSE 0]
    /\ freqs = corpus
    /\ total = Sum(corpus)
    /\ passes = 0
    /\ pc = "norm_loop"
    /\ cdf = ZeroTable
    /\ raw = <<>>
    /\ idx = 0
    /\ f = 0
    /\ X = 0
    /\ outbuf = <<>>
    /\ compressed = <<>>
    /\ comp = <<>>
    /\ pos = 0
    /\ length = 0
    /\ s = 0
    /\ decompressed = <<>>

Init == InitWith(CountSet)

InitNorm == InitWith(NormCountSet)

\* ------------------------------------------------------------ generate_frequency_table
\* Limit without the + 1: a symbol is then raised only to floor(total / enc_total).
LimitFloor(t) == t \div enc_total

Limit(t) == (t \div enc_total) + 1

Raised(fr, limit) ==
    [b \in Byte |-> IF fr[b] /= 0 /\ fr[b] < limit THEN limit ELSE fr[b]]

Added(fr, limit) == Sum(Raised(fr, limit)) - Sum(fr)

\* total left as it was: the increase of the pass is not added.
NextTotalStale(t, added) == t

NextTotal(t, added) == t + added

\* One pass of the while loop, up to the break or to total += added.
NormPass ==
    /\ pc = "norm_loop"
    /\ LET limit == Limit(total)
           added == Added(freqs, limit)
       IN  /\ freqs' = Raised(freqs, limit)
           /\ IF added = 0
              THEN /\ pc' = "norm_scale"
                   /\ total' = total
              ELSE /\ pc' = "norm_loop"
                   /\ total' = NextTotal(total, added)
    /\ passes' = passes + 1
    /\ UNCHANGED <<corpus, cdf, X, outbuf>>
    /\ UNCHANGED encVars
    /\ UNCHANGED decVars

ScaleFreq(fr, t) == (fr * enc_total) \div t

\* freqs = [f * enc_total // total for f in freqs]; an empty corpus divides by 0.
NormScale ==
    /\ pc = "norm_scale"
    /\ IF total = 0
       THEN /\ pc' = "zero_division_error"
            /\ freqs' = freqs
       ELSE /\ pc' = "model_init"
            /\ freqs' = [b \in Byte |-> ScaleFreq(freqs[b], total)]
    /\ UNCHANGED <<corpus, total, passes, cdf, X, outbuf>>
    /\ UNCHANGED encVars
    /\ UNCHANGED decVars

\* ------------------------------------------------------------ StaticModel.__init__
\* cf += f done before the append: an inclusive prefix sum.
CdfEntryInclusive(fr, sym) == SumUpTo(fr, sym + 1)

\* The value cf has when the loop appends the entry of sym.
CdfEntry(fr, sym) == SumUpTo(fr, sym)

ModelInit ==
    /\ pc = "model_init"
    /\ cdf' = [b \in Byte |-> CdfEntry(freqs, b)]
    /\ pc' = "ready"
    /\ UNCHANGED <<corpus, X, outbuf>>
    /\ UNCHANGED normVars
    /\ UNCHANGED encVars
    /\ UNCHANGED decVars

\* model.freq reading the entry after the symbol's.
FreqOffByOne(fr, sym) == fr[(sym + 1) % NumSymbols]

\* model.freq(symbol) and model.cdf(symbol)
Freq(fr, sym) == fr[sym]

Cdf(cd, sym) == cd[sym]

\* ------------------------------------------------------------ compress
\* compress(model, raw) is called with the model just built.
Compress ==
    /\ pc = "ready"
    /\ \E r \in SeqsUpTo(Alphabet, MaxLen) : raw' = r
    /\ X' = L
    /\ outbuf' = <<>>
    /\ idx' = 1
    /\ pc' = "enc_loop"
    /\ UNCHANGED <<corpus, cdf, f, compressed>>
    /\ UNCHANGED normVars
    /\ UNCHANGED decVars

\* (L >> MODEL_BITS) << 8, the factor of f in H
HUnit == (L \div (2 ^ MODEL_BITS)) * 256

\* The threshold without its << 8:  X >= (L >> MODEL_BITS) * f.
AtLeastHNoChunk(x, fq) == (x \div (L \div (2 ^ MODEL_BITS))) >= fq

\* X >= H with H = ((L >> MODEL_BITS) << 8) * f.  H is a multiple of HUnit, so
\* X >= HUnit * f  <=>  X \div HUnit >= f; the quotient keeps f = 4096 (H = 2^31)
\* within TLC's integers.
AtLeastH(x, fq) == (x \div HUnit) >= fq

\* The transform shifting by the chunk size 8 instead of MODEL_BITS.
EncodeTransformChunkShift(x, fq, c) == ((x \div fq) * 256) + (x % fq) + c

\* C(x,s) = (floor(x / f[s]) << n) + (x % f[s]) + CDF[s]
EncodeTransform(x, fq, c) == ((x \div fq) * (2 ^ MODEL_BITS)) + (x % fq) + c

\* struct.pack("<I", x)
Pack(x) ==
    << x % 256, (x \div 256) % 256, (x \div 65536) % 256, (x \div 16777216) % 256 >>

\* struct.pack("<I", x) raises struct.error unless 0 <= x < 2^32
Packable(x) == x >= 0 /\ (x \div 16777216) < 256

\* Top of the for loop: the next symbol's f and the zero-frequency check, or,
\* past the last symbol, the return statement.
EncNext ==
    /\ pc = "enc_loop"
    /\ IF idx > Len(raw)
       THEN /\ IF Packable(X)
               THEN /\ compressed' = outbuf \o Pack(X)
                    /\ pc' = "enc_done"
               ELSE /\ compressed' = compressed
                    /\ pc' = "enc_struct_error"
            /\ f' = f
       ELSE /\ f' = Freq(freqs, raw[idx])
            /\ pc' = IF f' = 0 THEN "encode_error" ELSE "enc_renorm"
            /\ compressed' = compressed
    /\ UNCHANGED <<corpus, cdf, raw, idx, X, outbuf>>
    /\ UNCHANGED normVars
    /\ UNCHANGED decVars

\* One iteration of  while X >= H
EncRenorm ==
    /\ pc = "enc_renorm"
    /\ AtLeastH(X, f)
    /\ outbuf' = Append(outbuf, X % 256)
    /\ X' = X \div 256
    /\ UNCHANGED <<pc, corpus, cdf>>
    /\ UNCHANGED normVars
    /\ UNCHANGED encVars
    /\ UNCHANGED decVars

\* The loop exits and the encode transform is applied.
EncTransform ==
    /\ pc = "enc_renorm"
    /\ ~AtLeastH(X, f)
    /\ X' = EncodeTransform(X, f, Cdf(cdf, raw[idx]))
    /\ idx' = idx + 1
    /\ pc' = "enc_loop"
    /\ UNCHANGED <<corpus, cdf, raw, f, compressed, outbuf>>
    /\ UNCHANGED normVars
    /\ UNCHANGED decVars

\* ------------------------------------------------------------ decompress
\* One iteration of  for s in range(256):  up = model.cdf(s), then the while
\* loop that fills the slots cursor .. up-1 with s - 1.  st = [cursor, table].
FillSlots(cd, sym, st) ==
    LET up == Cdf(cd, sym)
    IN  IF st.cursor < up
        THEN [cursor |-> up,
              table  |-> [c \in 0 .. MASK |->
                            IF c >= st.cursor /\ c < up THEN sym - 1 ELSE st.table[c]]]
        ELSE st

RECURSIVE BuildSymbolTable(_, _, _, _)
\* The iterations for the symbols lo .. hi in ascending order.  The range is
\* halved, and the first half is evaluated (its cursor is read) before the
\* second half starts, so that the evaluation stays shallow.
BuildSymbolTable(cd, lo, hi, st) ==
    IF lo = hi THEN FillSlots(cd, lo, st)
    ELSE LET mid == (lo + hi) \div 2
             first == BuildSymbolTable(cd, lo, mid, st)
         IN  IF first.cursor >= 0
             THEN BuildSymbolTable(cd, mid + 1, hi, first)
             ELSE first

\* symbol_table = [0] * (MASK + 1); cursor = 0; the for loop
SymbolTable(cd) ==
    BuildSymbolTable(cd, 0, NumSymbols - 1,
                     [cursor |-> 0, table |-> [c \in 0 .. MASK |-> 0]]).table

\* The table decompress builds.  The model is immutable once built, so the
\* local symbol_table of every call is this function of the model's cdf.
symbol_table == SymbolTable(cdf)

\* struct.unpack(">I", four bytes)
Unpack(b) == (((b[1] * 256 + b[2]) * 256) + b[3]) * 256 + b[4]

\* D(x) = f[s] * (x >> n) + (x & mask) - CDF[s]
DecodeTransform(x, fq, c) == (fq * (x \div (2 ^ MODEL_BITS))) + (x % (2 ^ MODEL_BITS)) - c

\* The compressed stream with the low byte of its state trailer changed by d.
Corrupted(c, d) == [c EXCEPT ![Len(c) - 3] = (c[Len(c) - 3] + d) % 256]

\* The buffers handed to decompress: the encoder's output, the output with a
\* corrupted state, the output without its first byte, and a buffer shorter than
\* the state trailer.  (All keep the state below 2^31.)
DecodeInputs ==
    {compressed, Corrupted(compressed, 1), Corrupted(compressed, 128),
     Tail(compressed), <<0, 0, 64>>}

\* The declared lengths: the right one and one too many.
DecodeLengths == {Len(raw), Len(raw) + 1}

\* decompress(model, comp, length) up to the for loop.
Decompress ==
    /\ pc = "enc_done"
    /\ \E c \in DecodeInputs, n \in DecodeLengths :
          /\ comp' = Reversed(c)
          /\ length' = n
          /\ outbuf' = <<>>
          /\ IF Len(c) < 4
             THEN /\ pc' = "dec_struct_error"
                  /\ UNCHANGED <<X, pos>>
             ELSE /\ X' = Unpack(SubSeq(comp', 1, 4))
                  /\ pos' = 4
                  /\ pc' = "dec_loop"
    /\ UNCHANGED <<corpus, cdf, s, decompressed>>
    /\ UNCHANGED normVars
    /\ UNCHANGED encVars

\* Top of the for loop: the lookup and the inverse transform, or, after
\* `length` iterations, the return statement.
DecNext ==
    /\ pc = "dec_loop"
    /\ IF Len(outbuf) = length
       THEN /\ decompressed' = Reversed(outbuf)
            /\ pc' = "dec_done"
            /\ UNCHANGED <<s, X>>
       ELSE /\ s' = symbol_table[X % (MASK + 1)]
            /\ IF Freq(freqs, s') = 0
               THEN /\ pc' = "decode_error"
                    /\ X' = X
               ELSE /\ pc' = "dec_renorm"
                    /\ X' = DecodeTransform(X, Freq(freqs, s'), Cdf(cdf, s'))
            /\ decompressed' = decompressed
    /\ UNCHANGED <<corpus, cdf, outbuf, comp, pos, length>>
    /\ UNCHANGED normVars
    /\ UNCHANGED encVars

\* One iteration of  while X < L;  comp.read(1)[0] on an exhausted stream raises
\* IndexError.
DecRenorm ==
    /\ pc = "dec_renorm"
    /\ X < L
    /\ IF pos >= Len(comp)
       THEN /\ pc' = "dec_index_error"
            /\ UNCHANGED <<X, pos>>
       ELSE /\ X' = (X * 256) + comp[pos + 1]
            /\ pos' = pos + 1
            /\ pc' = pc
    /\ UNCHANGED <<corpus, cdf, outbuf, comp, length, s, decompressed>>
    /\ UNCHANGED normVars
    /\ UNCHANGED encVars

\* The loop exits and the symbol is appended.
DecAppend ==
    /\ pc = "dec_renorm"
    /\ X >= L
    /\ outbuf' = Append(outbuf, s)
    /\ pc' = "dec_loop"
    /\ UNCHANGED <<corpus, cdf, X>>
    /\ UNCHANGED normVars
    /\ UNCHANGED encVars
    /\ UNCHANGED decVars

\* ------------------------------------------------------------ properties
\* The model has been built (generate_frequency_table returned).
Scaled ==
    pc \notin {"norm_loop", "norm_scale", "zero_division_error"}

\* StaticModel.__init__ returned.
ModelBuilt == Scaled /\ pc /= "model_init"

NonEmptyCorpus == \E b \in Byte : corpus[b] > 0

\* C2: for every non-empty corpus the normalized frequency table sums to
\* exactly 2^MODEL_BITS.
C2_SumInvariant ==
    (Scaled /\ NonEmptyCorpus) => Sum(freqs) = enc_total

\* C3: every byte value that occurs in the corpus has a normalized frequency
\* of at least 1, and every byte value absent from it has frequency 0.
C3_FrequencyCoverage ==
    (Scaled /\ NonEmptyCorpus) =>
        \A v \in Byte :
            /\ corpus[v] >= 1 => freqs[v] >= 1
            /\ corpus[v] = 0 => freqs[v] = 0

\* A skewed corpus: a value that occurs once was raised by the redistribution
\* and is scaled to a frequency of exactly 1, beside a value absent from it.
C3_Witness ==
    /\ Scaled
    /\ \E v \in Byte : corpus[v] = 1 /\ freqs[v] = 1
    /\ \E v \in Byte : corpus[v] = 100000
    /\ \E v \in Alphabet : corpus[v] = 0 /\ freqs[v] = 0

\* C7: cdf(0) = 0, cdf(i+1) = cdf(i) + freq(i) for i in 0..254, and cdf is
\* monotonically non-decreasing.
C7_CdfWellFormed ==
    (ModelBuilt /\ NonEmptyCorpus) =>
        /\ cdf[0] = 0
        /\ \A i \in 0 .. (NumSymbols - 2) : cdf[i + 1] = cdf[i] + freqs[i]
        /\ \A i \in 0 .. (NumSymbols - 2) : cdf[i] <= cdf[i + 1]

\* A model with three symbols of different frequencies, the last symbol among
\* them.
C7_Witness ==
    /\ ModelBuilt
    /\ freqs[0] > freqs[1]
    /\ freqs[1] > freqs[255]
    /\ freqs[255] > 0
    /\ cdf[255] = freqs[0] + freqs[1]

\* C10: the redistribution loop reaches a pass that changes nothing after
\* finitely many passes, and at every pass boundary `total` is the sum of the
\* current frequency counts.
C10_NormalizationTerminates ==
    /\ <>(pc /= "norm_loop")
    /\ [](pc \in {"norm_loop", "norm_scale"} => total = Sum(freqs))

\* The loop has ended after three passes: two that raised a count (the second
\* because the first pushed `total` over a multiple of enc_total) and the one
\* that changed nothing.
C10_Witness ==
    /\ pc = "norm_scale"
    /\ passes = 3
    /\ total = Sum(freqs)
    /\ total > Sum(corpus)

\* compress is running or has returned / raised.
EncStates == {"enc_loop", "enc_renorm", "enc_done", "encode_error", "enc_struct_error"}

\* decompress has returned or raised.
DecEnded == {"dec_done", "decode_error", "dec_index_error", "dec_struct_error"}

\* decompress was handed exactly what compress returned.
OverEncoderOutput == comp = Reversed(compressed)

\* L <= x < L * 256
InInterval(x) == x >= L /\ (x \div 256) < L

\* C1: for every non-empty D, with M = StaticModel(D), neither compress(M, D)
\* nor decompress(M, compress(M, D), len(D)) raises, and the latter returns D.
C1_RoundTrip ==
    (pc \in EncStates \cup DecEnded /\ raw /= <<>> /\ corpus = Histogram(raw)) =>
        /\ pc \notin {"encode_error", "enc_struct_error"}
        /\ (pc \in DecEnded /\ OverEncoderOutput /\ length = Len(raw)) =>
               (pc = "dec_done" /\ decompressed = raw)

\* C4: compress fails at the first symbol whose model frequency is 0 (it never
\* gets past one), and then returns nothing.
C4_EncodeError ==
    /\ pc = "encode_error" =>
          /\ idx \in 1 .. Len(raw)
          /\ freqs[raw[idx]] = 0
          /\ \A j \in 1 .. (idx - 1) : freqs[raw[j]] /= 0
          /\ compressed = <<>>
    /\ pc = "enc_renorm" => \A j \in 1 .. idx : freqs[raw[j]] /= 0
    /\ pc \in {"enc_loop", "enc_done"} => \A j \in 1 .. (idx - 1) : freqs[raw[j]] /= 0

\* The error is raised at the second symbol, after the first symbol was encoded
\* and renormalization bytes were already in the buffer.
C4_Witness ==
    /\ pc = "encode_error"
    /\ idx = 2
    /\ outbuf /= <<>>
    /\ compressed = <<>>

\* C5: a decode pass either returns exactly `length` symbols or fails with the
\* zero-frequency DecodeError; there is no other failure outcome.
C5_DecodeFailureKinds ==
    pc \in DecEnded =>
        \/ pc = "dec_done" /\ Len(decompressed) = length
        \/ pc = "decode_error"

\* Where the register X of a pass holds a value: an encode pass, and a decode
\* pass over encoder output.
RegisterLive ==
    \/ pc \in {"enc_loop", "enc_renorm", "enc_done"}
    \/ pc \in {"dec_loop", "dec_renorm", "dec_done"} /\ OverEncoderOutput

\* The symbol boundaries: on entry to an iteration of the for loop and at the
\* return.
AtSymbolBoundary ==
    \/ pc \in {"enc_loop", "enc_done"}
    \/ pc \in {"dec_loop", "dec_done"} /\ OverEncoderOutput

\* C6 as stated: every value X takes during an encode pass and a decode pass
\* over encoder output is in [L, L*256).
C6_StateIntervalAtAllTimes == RegisterLive => InInterval(X)

\* C6 as amended: X is in [L, L*256) at every symbol boundary, and stays in
\* [0, L*256) inside an iteration.
C6_StateIntervalAtBoundaries ==
    /\ AtSymbolBoundary => InInterval(X)
    /\ RegisterLive => (X >= 0 /\ (X \div 256) < L)

\* A decode pass over encoder output is back at the top of its loop after it
\* decoded a symbol and pulled renormalization bytes from the stream.
C6_Witness ==
    /\ pc = "dec_loop"
    /\ OverEncoderOutput
    /\ pos > 4
    /\ outbuf /= <<>>
    /\ InInterval(X)

\* C8: in the table built by decompress, every slot in [cdf(s), cdf(s) + freq(s))
\* maps to s, for every symbol s in 0..255.
C8_InverseLookup ==
    (pc = "dec_loop" /\ outbuf = <<>>) =>
        LET table == symbol_table
        IN  \A sym \in Byte :
               \A slot \in cdf[sym] .. (cdf[sym] + freqs[sym] - 1) : table[slot] = sym

\* C9: an encode step starts with f in 1..2^MODEL_BITS; when its
\* renormalization loop exits, X < H and the transform yields a state in
\* [L, 2^31); every renormalization value is a byte, and the value compress
\* returns ends with the final state as 4 little-endian bytes.
C9_EncodeStepBound ==
    /\ pc = "enc_renorm" => f \in 1 .. enc_total
    /\ (pc = "enc_renorm" /\ ~AtLeastH(X, f)) =>
          /\ (X \div HUnit) < f
          /\ InInterval(EncodeTransform(X, f, Cdf(cdf, raw[idx])))
    /\ pc = "enc_loop" => InInterval(X)
    /\ pc /= "enc_struct_error"
    /\ pc \in {"enc_loop", "enc_renorm", "enc_done"} =>
          \A k \in 1 .. Len(outbuf) : outbuf[k] \in Byte
    /\ pc = "enc_done" =>
          /\ Len(compressed) = Len(outbuf) + 4
          /\ \A k \in 1 .. Len(compressed) : compressed[k] \in Byte
          /\ SubSeq(compressed, 1, Len(outbuf)) = outbuf
          /\ Unpack(Reversed(SubSeq(compressed, Len(outbuf) + 1, Len(outbuf) + 4))) = X

\* compress returned after two symbols of the smallest frequency, each of which
\* made the renormalization loop emit bytes.
C9_Witness ==
    /\ pc = "enc_done"
    /\ Len(raw) = 2
    /\ f = 1
    /\ Len(outbuf) >= 2
    /\ Len(compressed) = Len(outbuf) + 4

\* ------------------------------------------------------------ specification
Next ==
    \/ NormPass
    \/ NormScale
    \/ ModelInit
    \/ Compress
    \/ EncNext
    \/ EncRenorm
    \/ EncTransform
    \/ Decompress
    \/ DecNext
    \/ DecRenorm
    \/ DecAppend

Spec == Init /\ [][Next]_vars

\* The model-building part alone.  The program is sequential and never blocks,
\* so a pass of the loop that can run does run: weak fairness of NormPass.
NextNorm ==
    \/ NormPass
    \/ NormScale
    \/ ModelInit

NormSpec == InitNorm /\ [][NextNorm]_vars /\ WF_vars(NormPass)
====
